---- MODULE Spec2Model ----
(***************************************************************************)
(* Moving-MNIST environment of jaxhpm/jax_loader.py: the JaxMNISTLoader    *)
(* object (reset / step / build_seq and its compositor) and the batch      *)
(* generator jaxMMNIST.                                                    *)
(*                                                                         *)
(* Numbers.  Positions and velocities are float32 in the code; here they   *)
(* are fixed-point integers in units of 1/Scale pixel.  Frame intensities  *)
(* are kept as integers in units of 1/255 (canvas /= 255.0), so 255 is the *)
(* float 1.0.  Arrays the code indexes from 0 are functions on 0..n-1;     *)
(* tuples of digits (indexes, positions, velocs) and the pair lims are     *)
(* sequences, so lims[1] is the code's lims[0].                            *)
(*                                                                         *)
(* Random keys.  A key is the path of its derivation: random.key(s) is     *)
(* <<s>> and the i-th key of a split appends i.  Draws are a fixed         *)
(* function of the key they consume.                                       *)
(***************************************************************************)
EXTENDS Integers, Sequences, FiniteSets, TLC

(* ------------------------------ bounds -------------------------------- *)
\* positions and velocities are multiples of 1/Scale pixel
Scale == 5
\* seeds 0..MaxSeed are offered to reset and build_seq
MaxSeed == 3
\* a caller steps an env state at most MaxSteps times
MaxSteps == 4
\* a generator is pulled at most MaxPulls times
MaxPulls == 2

(* ------------------------------ state ---------------------------------- *)
VARIABLES
    args,       \* the arguments the caller constructs the loader with
    loader,     \* the JaxMNISTLoader object, NoLoader before construction
    held_env_state, \* the env state the caller holds (from reset or step)
    obsv,       \* the Frame last returned to the caller
    ret,        \* [reward, done, info] last returned by step
    nsteps,     \* steps taken since the env state was made
    call,       \* the last call of reset or step and its arguments
    initial_env_state, \* the env state the caller's run of steps began from
    built,      \* the last call of build_seq: its key and what it returned
    prev_built, \* the call of build_seq before that
    gargs,      \* the arguments the batch generators are made with
    gen,        \* per generator: where it is suspended, and its locals
    batch,      \* per generator: the batch it last yielded
    hist        \* per generator: the keys of every pull so far

env_vars == << held_env_state, obsv, ret, nsteps, call, initial_env_state >>
seq_vars == << built, prev_built >>
gen_vars == << gargs, gen, batch, hist >>
vars == << args, loader, env_vars, seq_vars, gen_vars >>

(* ------------------------- program constants --------------------------- *)
width == 64
height == 64
mnist_width == 28
mnist_height == 28
\* seed of the batch generator's stream
GenSeed == 38

\* absent values: a loader not yet constructed, a result not yet returned
\* (Python's None), a Frame not yet rendered
NoLoader == [none |-> "loader"]
NoValue == [none |-> "value"]
NoCall == [op |-> "none"]
NoFrame == << >>

Px(n) == n * Scale

Min(a, b) == IF a < b THEN a ELSE b
Max(a, b) == IF a > b THEN a ELSE b

RECURSIVE SumTo(_, _)
\* f[1] + ... + f[n]
SumTo(f, n) == IF n = 0 THEN 0 ELSE f[n] + SumTo(f, n - 1)

(* ---------------------------- SpriteStore ------------------------------ *)
\* The source image set, a fixed pool of 28 x 28 uint8 sprites, indexed from 0.
\* Sprite 0 is a full bright block, sprite 1 a dim frame with an empty
\* inside, sprite 2 is faint with four fully bright corners.
PoolSize == 3
Sprite(id) ==
    [i \in 0..(mnist_width - 1) |-> [j \in 0..(mnist_height - 1) |->
        LET edge == i \in {0, mnist_width - 1} \/ j \in {0, mnist_height - 1}
            corner == i \in {0, mnist_width - 1} /\ j \in {0, mnist_height - 1}
        IN  CASE id = 0 -> 200
              [] id = 1 -> IF edge THEN 100 ELSE 0
              [] OTHER  -> IF corner THEN 255 ELSE 40]]

\* mnist['train']['image'] or mnist['test']['image']: two orders of the pool
MnistSplit(train) ==
    [i \in 0..(PoolSize - 1) |-> IF train THEN i ELSE PoolSize - 1 - i]

\* mnist_images[:n], a Python slice: a negative n counts from the end
TakeImages(mnist_images, n) ==
    LET size == Cardinality(DOMAIN mnist_images)
        count == IF n >= 0 THEN Min(n, size) ELSE Max(size + n, 0)
    IN  [i \in 0..(count - 1) |-> mnist_images[i]]

(* ----------------------------- __init__ -------------------------------- *)
\* the fields __init__ sets; images holds sprite ids, images.shape[0] of them
JaxMNISTLoader(images, seq_len, num_mnist_per_mmnist) ==
    [ width |-> width, height |-> height,
      mnist_width |-> mnist_width, mnist_height |-> mnist_height,
      lims |-> << width - mnist_width, height - mnist_height >>,
      images |-> images,
      num_images |-> Cardinality(DOMAIN images),
      seq_len |-> seq_len,
      nums_per_image |-> num_mnist_per_mmnist ]

(* ---------------------------- compositor ------------------------------- *)
\* a variant that rounds to the nearest integer
AsInt_round(p) ==
    IF p >= 0 THEN (2 * p + Scale) \div (2 * Scale)
    ELSE -((2 * (-p) + Scale) \div (2 * Scale))

\* position.astype(int): float to int conversion truncates toward zero
AsInt(p) == IF p >= 0 THEN p \div Scale ELSE -((-p) \div Scale)

\* a variant that forgets the upper clamp of lines 44 and 46
CanvasOffset_unclamped(self, position) ==
    LET x0 == AsInt(position[1])
        y0 == AsInt(position[2])
    IN  << IF x0 < 0 THEN 0 ELSE x0, IF y0 < 0 THEN 0 ELSE y0 >>

\* the offset _build_canvas hands to dynamic_update_slice (lines 42-46)
CanvasOffset(self, position) ==
    LET x0 == AsInt(position[1])
        y0 == AsInt(position[2])
        x1 == IF x0 < 0 THEN 0 ELSE x0
        x2 == IF x1 > self.lims[1] THEN self.lims[1] ELSE x1
        y1 == IF y0 < 0 THEN 0 ELSE y0
        y2 == IF y1 > self.lims[2] THEN self.lims[2] ELSE y1
    IN  << x2, y2 >>

\* jax.lax.dynamic_update_slice on a w x h canvas: the start indices are
\* clamped so that the update fits, then the update overwrites that region
dynamic_update_slice(w, h, canvas, image, start) ==
    LET iw == Cardinality(DOMAIN image)
        ih == Cardinality(DOMAIN image[0])
        sx == Min(Max(start[1], 0), w - iw)
        sy == Min(Max(start[2], 0), h - ih)
    IN  [x \in 0..(w - 1) |-> [y \in 0..(h - 1) |->
            IF x >= sx /\ x < sx + iw /\ y >= sy /\ y < sy + ih
            THEN image[x - sx][y - sy]
            ELSE canvas[x][y]]]

\* self.images[index]; an out-of-range index of a gather is clamped
ImageAt(self, index) ==
    Sprite(self.images[Min(Max(index, 0), self.num_images - 1)])

\* self.images[index] on an image array with no images: indexing an axis of
\* size 0 raises IndexError, whatever the index
LookupRaises(self, state) ==
    self.num_images = 0 /\ Len(state.indexes) > 0

Zeros(w, h) == [x \in 0..(w - 1) |-> [y \in 0..(h - 1) |-> 0]]

_build_canvas(self, index, position) ==
    dynamic_update_slice(self.width, self.height,
                         Zeros(self.width, self.height),
                         ImageAt(self, index),
                         CanvasOffset(self, position))

\* canvas += fig for every digit, in float: the uint8 figs add without wrap
SumCanvases(self, figs) ==
    [x \in 0..(self.width - 1) |-> [y \in 0..(self.height - 1) |->
        SumTo([d \in 1..Len(figs) |-> figs[d][x][y]], Len(figs))]]

\* a variant that accumulates in uint8, which wraps modulo 256
Saturate_wrap(v) == v % 256

\* jnp.where(canvas > 255.0, 255.0, canvas), then canvas /= 255.0
Saturate(v) == IF v > 255 THEN 255 ELSE v

_get_obsv(self, state) ==
    LET figs == [d \in 1..Len(state.indexes) |->
                    _build_canvas(self, state.indexes[d], state.positions[d])]
        canvas == SumCanvases(self, figs)
    IN  [x \in 0..(self.width - 1) |-> [y \in 0..(self.height - 1) |->
            Saturate(canvas[x][y])]]

(* ---------------------------- random keys ------------------------------- *)
\* jax.random.key(seed)
random_key(seed) == << seed >>

\* jax.random.split(key, num): num keys, each a function of key and its place
random_split(key, num) == [i \in 0..(num - 1) |-> Append(key, i)]

RECURSIVE KeyHash(_)
KeyHash(key) ==
    IF Len(key) = 0 THEN 1
    ELSE (KeyHash(SubSeq(key, 1, Len(key) - 1)) * 37 + key[Len(key)] * 11 + 5) % 10007

\* the j-th word of the bit stream a key generates
Bits(key, j) ==
    LET h == KeyHash(key) IN (h * 13 + (h \div 7) + j * ((h % 101) + 1) + j * j * 3) % 9973

\* random.randint(key, shape, minval, maxval)[j]; the span is 1 when
\* maxval <= minval, so that minval is returned
random_randint(key, j, minval, maxval) ==
    LET span == IF maxval <= minval THEN 1 ELSE maxval - minval
    IN  minval + (Bits(key, j) % span)

\* random.uniform(key, shape)[j] in [0, 1), as the numerator over grid
random_uniform(key, j, grid) == Bits(key, j) % grid

(* ------------------------------- step ---------------------------------- *)
\* a variant that forgets the upper bound
Reflects_low(self, next_pos) == next_pos < Px(-2)

\* a variant that reflects on the bounds themselves
Reflects_inclusive(self, next_pos) ==
    next_pos <= Px(-2) \/ next_pos >= Px(self.lims[1] + 2)

\* the select of lines 30-32: both axes are tested against lims[0] + 2
Reflects(self, next_pos) ==
    next_pos < Px(-2) \/ next_pos > Px(self.lims[1] + 2)

\* a variant in which a reflection halves the speed
Physics_damped(self, state) ==
    LET k == Len(state.positions)
        next_pos == [d \in 1..k |-> [a \in 1..2 |->
                        state.positions[d][a] + state.velocs[d][a]]]
        velocs == [d \in 1..k |-> [a \in 1..2 |->
                        IF Reflects(self, next_pos[d][a])
                        THEN -1 * (state.velocs[d][a] \div 2)
                        ELSE state.velocs[d][a]]]
        positions == [d \in 1..k |-> [a \in 1..2 |->
                        state.positions[d][a] + velocs[d][a]]]
    IN  [indexes |-> state.indexes, positions |-> positions, velocs |-> velocs]

\* a variant that moves to the predicted position and reflects the velocity
\* for the next tick only
Physics_late(self, state) ==
    LET k == Len(state.positions)
        next_pos == [d \in 1..k |-> [a \in 1..2 |->
                        state.positions[d][a] + state.velocs[d][a]]]
        velocs == [d \in 1..k |-> [a \in 1..2 |->
                        IF Reflects(self, next_pos[d][a])
                        THEN -1 * state.velocs[d][a]
                        ELSE state.velocs[d][a]]]
    IN  [indexes |-> state.indexes, positions |-> next_pos, velocs |-> velocs]

\* lines 27-35: predict, reflect, move with the velocity as reflected
Physics(self, state) ==
    LET k == Len(state.positions)
        next_pos == [d \in 1..k |-> [a \in 1..2 |->
                        state.positions[d][a] + state.velocs[d][a]]]
        velocs == [d \in 1..k |-> [a \in 1..2 |->
                        IF Reflects(self, next_pos[d][a])
                        THEN -1 * state.velocs[d][a]
                        ELSE state.velocs[d][a]]]
        positions == [d \in 1..k |-> [a \in 1..2 |->
                        state.positions[d][a] + velocs[d][a]]]
    IN  [indexes |-> state.indexes, positions |-> positions, velocs |-> velocs]

\* a variant that ends the episode when a digit has left the canvas
step_terminating(self, env_state, action) ==
    LET next_state == Physics(self, env_state.state)
    IN  [ env_state |-> [state |-> next_state, key |-> env_state.key],
          obsv |-> _get_obsv(self, next_state),
          reward |-> 1,
          done |-> \E d \in DOMAIN next_state.positions : \E a \in 1..2 :
                      \/ next_state.positions[d][a] < 0
                      \/ next_state.positions[d][a] > Px(self.lims[a]),
          info |-> << >> ]

\* a variant that lets the action push the digits
step_acting(self, env_state, action) ==
    LET moved == Physics(self, env_state.state)
        next_state == [moved EXCEPT !.positions =
                          [d \in DOMAIN moved.positions |-> [a \in 1..2 |->
                              moved.positions[d][a] + Px(Len(action))]]]
    IN  [ env_state |-> [state |-> next_state, key |-> env_state.key],
          obsv |-> _get_obsv(self, next_state),
          reward |-> 1,
          done |-> FALSE,
          info |-> << >> ]

\* a variant that advances the key on every tick
step_rekeying(self, env_state, action) ==
    LET next_state == Physics(self, env_state.state)
    IN  [ env_state |-> [state |-> next_state,
                         key |-> random_split(env_state.key, 2)[0]],
          obsv |-> _get_obsv(self, next_state),
          reward |-> 1,
          done |-> FALSE,
          info |-> << >> ]

step(self, env_state, action) ==
    LET next_state == Physics(self, env_state.state)
    IN  [ env_state |-> [state |-> next_state, key |-> env_state.key],
          obsv |-> _get_obsv(self, next_state),
          reward |-> 1,
          done |-> FALSE,
          info |-> << >> ]

(* ------------------------------ _reset --------------------------------- *)
\* direc = pi * (u * 2 - 1) for u = h / 8: cos and sin in thousandths
HeadingTable ==
    << << -1000, 0 >>, << -707, -707 >>, << 0, -1000 >>, << 707, -707 >>,
       << 1000, 0 >>, << 707, 707 >>, << 0, 1000 >>, << -707, 707 >> >>

\* a value in thousandths of a pixel rounded to the nearest 1/Scale pixel
RoundFix(m) ==
    IF m >= 0 THEN (m * Scale + 500) \div 1000
    ELSE -(((-m) * Scale + 500) \div 1000)

\* a variant that draws the speeds from the subkey of the sprite indexes
_reset_keys_reuse(key) ==
    LET s1 == random_split(key, 2)
        s2 == random_split(s1[0], 2)
        s3 == random_split(s2[0], 2)
        s4 == random_split(s3[0], 2)
    IN  [ split |-> << key, s1[0], s2[0], s3[0] >>,
          direcs |-> s1[1], indexes |-> s2[1], speeds |-> s2[1],
          positions |-> s4[1],
          new_key |-> s4[0] ]

\* lines 68, 71, 74, 83: the keys _reset handles: those it splits, in order,
\* the subkey each draw consumes, and the new_key it returns
_reset_keys(key) ==
    LET s1 == random_split(key, 2)
        s2 == random_split(s1[0], 2)
        s3 == random_split(s2[0], 2)
        s4 == random_split(s3[0], 2)
    IN  [ split |-> << key, s1[0], s2[0], s3[0] >>,
          direcs |-> s1[1], indexes |-> s2[1], speeds |-> s3[1],
          positions |-> s4[1],
          new_key |-> s4[0] ]

\* a variant whose speeds are randint(0, 5) + 3
_reset_draws_fast(self, key) ==
    LET k == self.nums_per_image
        keys == _reset_keys(key)
    IN  [ direcs |-> [d \in 1..k |->
                       random_uniform(keys.direcs, d - 1, Len(HeadingTable)) + 1],
          indexes |-> [d \in 1..k |->
                        random_randint(keys.indexes, d - 1, 0, self.num_images)],
          speeds |-> [d \in 1..k |->
                       random_randint(keys.speeds, d - 1, 0, 5) + 3],
          positions |-> [d \in 1..k |-> [a \in 1..2 |->
                          random_uniform(keys.positions, 2 * (d - 1) + (a - 1),
                                         Px(self.lims[a]))]] ]

\* lines 69, 72, 75, 84-89: the four draws of _reset; a heading is drawn as
\* its place in HeadingTable
_reset_draws(self, key) ==
    LET k == self.nums_per_image
        keys == _reset_keys(key)
    IN  [ direcs |-> [d \in 1..k |->
                       random_uniform(keys.direcs, d - 1, Len(HeadingTable)) + 1],
          indexes |-> [d \in 1..k |->
                        random_randint(keys.indexes, d - 1, 0, self.num_images)],
          speeds |-> [d \in 1..k |->
                       random_randint(keys.speeds, d - 1, 0, 5) + 2],
          positions |-> [d \in 1..k |-> [a \in 1..2 |->
                          random_uniform(keys.positions, 2 * (d - 1) + (a - 1),
                                         Px(self.lims[a]))]] ]

_reset(self, key) ==
    LET k == self.nums_per_image
        drawn == _reset_draws(self, key)
        velocs == [d \in 1..k |->
                     << RoundFix(drawn.speeds[d]
                                   * HeadingTable[drawn.direcs[d]][1]),
                        RoundFix(drawn.speeds[d]
                                   * HeadingTable[drawn.direcs[d]][2]) >>]
    IN  [ state |-> [indexes |-> drawn.indexes, positions |-> drawn.positions,
                     velocs |-> velocs],
          key |-> _reset_keys(key).new_key ]

reset(self, key) ==
    LET env_state == _reset(self, key)
    IN  [ env_state |-> env_state, obsv |-> _get_obsv(self, env_state.state) ]

\* a variant that emits the Frame of the carry it is given
scan_func_pre(self, carry, x) ==
    LET r == step(self, carry, x)
    IN  [ carry |-> r.env_state, y |-> _get_obsv(self, carry.state) ]

scan_func(self, carry, x) ==
    LET r == step(self, carry, x)
    IN  [ carry |-> r.env_state, y |-> r.obsv ]

(* ----------------------------- build_seq ------------------------------- *)
\* the x of every tick of build_seq's scan (xs = None)
NullAction == << >>

RECURSIVE lax_scan(_, _, _, _)
\* jax.lax.scan(self.scan_func, init, None, length): the carry is threaded
\* through length calls of scan_func and the y of each call is kept, in order
lax_scan(self, carry, ys, length) ==
    IF length <= 0 THEN [carry |-> carry, ys |-> ys]
    ELSE LET r == scan_func(self, carry, NullAction)
         IN  lax_scan(self, r.carry, Append(ys, r.y), length - 1)

\* the ys stacked into one array, indexed from 0
Stack(ys) == [t \in 0..(Len(ys) - 1) |-> ys[t + 1]]

\* a variant whose reset draws from a stream the loader keeps across calls
build_seq_stateful(self, key) ==
    LET n == (IF built = NoValue THEN 0 ELSE 1)
                + (IF prev_built = NoValue THEN 0 ELSE 1)
        init == reset(self, Append(key, n)).env_state
    IN  Stack(lax_scan(self, init, << >>, self.seq_len).ys)

build_seq(self, key) ==
    LET init == reset(self, key).env_state
    IN  Stack(lax_scan(self, init, << >>, self.seq_len).ys)

(* ----------------------------- jaxMMNIST ------------------------------- *)
\* jnp.zeros((batch_size, seq_len, 2))
ActionZeros(batch_size, seq_len) ==
    [b \in 0..(batch_size - 1) |-> [t \in 0..(seq_len - 1) |->
        [c \in 0..1 |-> 0]]]

\* a variant that flags the first tick of every sequence
IsFirst_tick0(batch_size, seq_len) ==
    [b \in 0..(batch_size - 1) |-> [t \in 0..(seq_len - 1) |-> t = 0]]

\* jnp.zeros((batch_size, seq_len), bool).at[0].set(True)
IsFirst(batch_size, seq_len) ==
    [b \in 0..(batch_size - 1) |-> [t \in 0..(seq_len - 1) |-> b = 0]]

\* a variant whose stream is seeded from a counter all generators share
jaxMMNIST_start_shared(a) ==
    [ jaxLoader |-> JaxMNISTLoader(
                        TakeImages(MnistSplit(a.train),
                                   a.num_source_mnist_images),
                        a.seq_len, a.num_mnist_per_image),
      next_key |-> random_key(GenSeed + Len(hist[1]) + Len(hist[2])),
      action |-> ActionZeros(a.batch_size, a.seq_len),
      is_first |-> IsFirst(a.batch_size, a.seq_len) ]

\* lines 117-145: the generator's locals when it enters its loop
jaxMMNIST_start(a) ==
    [ jaxLoader |-> JaxMNISTLoader(
                        TakeImages(MnistSplit(a.train),
                                   a.num_source_mnist_images),
                        a.seq_len, a.num_mnist_per_image),
      next_key |-> random_key(GenSeed),
      action |-> ActionZeros(a.batch_size, a.seq_len),
      is_first |-> IsFirst(a.batch_size, a.seq_len) ]

\* jax.vmap(jaxLoader.build_seq): build_seq of every key of the batch
batch_build_seq(self, batch_key) ==
    [b \in DOMAIN batch_key |-> build_seq(self, batch_key[b])]

\* einops.rearrange(batch_ys, "b t w h -> b t w h 1")
rearrange(batch_ys) ==
    [b \in DOMAIN batch_ys |-> [t \in DOMAIN batch_ys[b] |->
        [x \in DOMAIN batch_ys[b][t] |-> [y \in DOMAIN batch_ys[b][t][x] |->
            [c \in 0..0 |-> batch_ys[b][t][x][y]]]]]]

\* a variant whose loop runs only while the stream is at its seed
LoopCond_once(l) == l.next_key = random_key(GenSeed)

\* line 146, while True: the condition the loop tests before every turn
LoopCond(l) == TRUE

\* a variant that does not rebind next_key
loop_body_stale(self, next_key, batch_size) ==
    LET s == random_split(next_key, 2)
        batch_key == random_split(s[1], batch_size)
    IN  [ next_key |-> next_key, current_key |-> s[1],
          batch_key |-> batch_key,
          image |-> rearrange(batch_build_seq(self, batch_key)) ]

\* lines 147-150: one turn of the loop, up to the yield
loop_body(self, next_key, batch_size) ==
    LET s == random_split(next_key, 2)
        batch_key == random_split(s[1], batch_size)
    IN  [ next_key |-> s[0], current_key |-> s[1],
          batch_key |-> batch_key,
          image |-> rearrange(batch_build_seq(self, batch_key)) ]

(* ------------------------- the env's callers -------------------------- *)
Seeds == 0..MaxSeed
\* actions, as tuples of numbers: the null action and __main__'s scalar 1
Actions == { NullAction, << 1 >> }

ValidArgs ==
    [ num_images : 1..PoolSize, seq_len : 1..2, nums_per_image : 1..2 ]

Generators == 1..2

NoEnv ==
    /\ held_env_state = NoValue
    /\ obsv = NoFrame
    /\ ret = NoValue
    /\ nsteps = 0
    /\ call = NoCall
    /\ initial_env_state = NoValue

NoBuilds ==
    /\ built = NoValue
    /\ prev_built = NoValue

NoGenerators ==
    /\ gargs = NoValue
    /\ gen = [g \in Generators |-> [pc |-> "absent"]]
    /\ batch = [g \in Generators |-> NoValue]
    /\ hist = [g \in Generators |-> << >>]

Init ==
    /\ args \in ValidArgs
    /\ loader = NoLoader
    /\ NoEnv
    /\ NoBuilds
    /\ NoGenerators

\* JaxMNISTLoader(images=..., seq_len=..., num_mnist_per_mmnist=...)
Construct ==
    /\ loader = NoLoader
    /\ loader' = JaxMNISTLoader(TakeImages(MnistSplit(TRUE), args.num_images), args.seq_len,
                                args.nums_per_image)
    /\ UNCHANGED << args, env_vars, seq_vars, gen_vars >>

\* env.reset(key), to start an episode or after an episode of MaxSteps ticks
Reset ==
    /\ loader # NoLoader
    /\ held_env_state = NoValue \/ nsteps = MaxSteps
    /\ \E seed \in Seeds :
         /\ ~LookupRaises(loader, _reset(loader, random_key(seed)).state)
         /\ \E r \in { reset(loader, random_key(seed)) } :
               /\ held_env_state' = r.env_state
               /\ obsv' = r.obsv
               /\ call' = [op |-> "reset", key |-> random_key(seed),
                           keys |-> _reset_keys(random_key(seed)),
                           drawn |-> _reset_draws(loader, random_key(seed))]
               /\ initial_env_state' = r.env_state
    /\ nsteps' = 0
    /\ UNCHANGED << args, loader, ret, seq_vars, gen_vars >>

\* env.step(env_state, action)
Step ==
    /\ loader # NoLoader
    /\ held_env_state # NoValue
    /\ nsteps < MaxSteps
    /\ \E action \in Actions :
         \E r \in { step(loader, held_env_state, action) } :
             /\ held_env_state' = r.env_state
             /\ obsv' = r.obsv
             /\ ret' = [reward |-> r.reward, done |-> r.done, info |-> r.info]
             /\ call' = [op |-> "step", env_state |-> held_env_state,
                         action |-> action]
    /\ nsteps' = nsteps + 1
    /\ UNCHANGED << args, loader, initial_env_state, seq_vars, gen_vars >>

Next == Construct \/ Reset \/ Step

Spec == Init /\ [][Next]_vars

(* ------------------- step on arbitrary env states ---------------------- *)
\* one axis of one digit, << position, velocity >>: predicted positions on
\* the bounds -2 and 38 themselves, just beyond them, inside, and digits
\* already far outside the band
XCases ==
    { << Px(0), -Px(2) >>, << Px(0), -Px(6) >>, << Px(17) + 2, Px(3) + 1 >>,
      << Px(36), Px(2) >>, << Px(36), Px(3) + 1 >>, << Px(47), -Px(6) >>,
      << Px(-9), Px(2) >> }
YCases ==
    { << Px(-1) - 2, -Px(2) >>, << Px(37) + 2, -Px(2) >>,
      << Px(37) + 2, Px(4) + 1 >>, << Px(20), Px(4) + 1 >> }

OneDigit ==
    { [indexes |-> << 2 >>, positions |-> << << x[1], y[1] >> >>,
       velocs |-> << << x[2], y[2] >> >>] : x \in XCases, y \in YCases }

\* two digits, apart, partly overlapping and one upon the other
TwoDigits ==
    { [indexes |-> i,
       positions |-> << << Px(10), Px(10) >>, p2 >>,
       velocs |-> << << Px(2), -Px(3) >>, << -Px(1), Px(1) >> >>] :
      i \in { << 0, 0 >>, << 1, 1 >>, << 0, 1 >>, << 2, 0 >> },
      p2 \in { << Px(11), Px(9) >>, << Px(24) + 1, Px(30) >>,
               << Px(40), Px(-6) >> } }

StepStates == OneDigit \cup TwoDigits

InitStep ==
    /\ args = [num_images |-> PoolSize, seq_len |-> 1, nums_per_image |-> 2]
    /\ loader = JaxMNISTLoader(TakeImages(MnistSplit(TRUE), args.num_images), args.seq_len,
                               args.nums_per_image)
    /\ held_env_state \in [state : StepStates, key : {random_key(0)}]
    /\ obsv = NoFrame
    /\ ret = NoValue
    /\ nsteps = 0
    /\ call = NoCall
    /\ initial_env_state = held_env_state
    /\ NoBuilds
    /\ NoGenerators

NextStep == Step

SpecStep == InitStep /\ [][NextStep]_vars

(* ----------------------- the callers of build_seq --------------------- *)
SeqArgs ==
    { [num_images |-> PoolSize, seq_len |-> a[1], nums_per_image |-> a[2]] :
      a \in { << 1, 1 >>, << 2, 1 >>, << 3, 1 >>, << 1, 2 >>, << 2, 2 >> } }

InitSeq ==
    /\ args \in SeqArgs
    /\ loader = NoLoader
    /\ NoEnv
    /\ NoBuilds
    /\ NoGenerators

\* env.build_seq(key)
BuildSeq ==
    /\ loader # NoLoader
    /\ \E seed \in Seeds :
         built' = [key |-> random_key(seed),
                   ys |-> build_seq(loader, random_key(seed))]
    /\ prev_built' = built
    /\ UNCHANGED << args, loader, env_vars, gen_vars >>

NextSeq == Construct \/ BuildSeq

SpecSeq == InitSeq /\ [][NextSeq]_vars

(* ----------------------- construction, any arguments ------------------- *)
AllArgs ==
    [ num_images : 0..PoolSize, seq_len : -1..2, nums_per_image : -1..2 ]

InitCtor ==
    /\ args \in AllArgs
    /\ loader = NoLoader
    /\ NoEnv
    /\ NoBuilds
    /\ NoGenerators

NextCtor == Construct

SpecCtor == InitCtor /\ [][NextCtor]_vars

(* ------------------ episodes on a loader of any arguments -------------- *)
AnyArgs ==
    [ num_images : 0..PoolSize, seq_len : {1}, nums_per_image : 1..2 ]

InitAny ==
    /\ args \in AnyArgs
    /\ loader = NoLoader
    /\ NoEnv
    /\ NoBuilds
    /\ NoGenerators

\* env.reset(key) when the sprite lookup of _get_obsv raises: _reset has
\* drawn its state, nothing is returned to the caller
ResetRaises ==
    /\ loader # NoLoader
    /\ held_env_state = NoValue
    /\ \E seed \in Seeds :
         \E e \in { _reset(loader, random_key(seed)) } :
             /\ LookupRaises(loader, e.state)
             /\ call' = [op |-> "reset_raised", key |-> random_key(seed),
                         drawn |-> e.state]
    /\ UNCHANGED << args, loader, held_env_state, obsv, ret, nsteps,
                    initial_env_state, seq_vars, gen_vars >>

NextAny == Construct \/ Reset \/ ResetRaises \/ Step

SpecAny == InitAny /\ [][NextAny]_vars

(* -------------------------- the batch generators ----------------------- *)
GenArgs ==
    [ train : BOOLEAN, batch_size : 1..2, num_source_mnist_images : {2},
      num_mnist_per_image : {1}, seq_len : 1..2 ]

InitGen ==
    /\ args = NoValue
    /\ loader = NoLoader
    /\ NoEnv
    /\ NoBuilds
    /\ gargs \in GenArgs
    /\ gen = [g \in Generators |-> [pc |-> "absent"]]
    /\ batch = [g \in Generators |-> NoValue]
    /\ hist = [g \in Generators |-> << >>]

\* jaxMMNIST(...): a generator object; its body has not started to run
GenCall(g) ==
    /\ gen[g].pc = "absent"
    /\ gen' = [gen EXCEPT ![g] = [pc |-> "created"]]
    /\ UNCHANGED << args, loader, env_vars, seq_vars, gargs, batch, hist >>

\* the locals of generator g when it is about to run its loop
Locals(g) ==
    IF gen[g].pc = "created" THEN jaxMMNIST_start(gargs) ELSE gen[g].locals

\* the pulls generator g has answered
Pulls(g) == IF gen[g].pc \in { "absent", "created" } THEN 0 ELSE gen[g].pulls

\* next(generator): runs the body up to the next yield, or off its end,
\* which raises StopIteration and leaves the generator exhausted
GenNext(g) ==
    /\ gen[g].pc \in { "created", "suspended" }
    /\ Pulls(g) < MaxPulls
    /\ \E l \in { Locals(g) } :
         IF LoopCond(l)
         THEN \E r \in { loop_body(l.jaxLoader, l.next_key, gargs.batch_size) } :
                /\ gen' = [gen EXCEPT ![g] =
                             [pc |-> "suspended",
                              locals |-> [l EXCEPT !.next_key = r.next_key],
                              pulls |-> Pulls(g) + 1]]
                /\ batch' = [batch EXCEPT ![g] =
                               [image |-> r.image, action |-> l.action,
                                is_first |-> l.is_first]]
                /\ hist' = [hist EXCEPT ![g] =
                              Append(@, [parent |-> l.next_key,
                                         next_key |-> r.next_key,
                                         current_key |-> r.current_key,
                                         batch_key |-> r.batch_key])]
         ELSE /\ gen' = [gen EXCEPT ![g] =
                           [pc |-> "exhausted", locals |-> l,
                            pulls |-> Pulls(g) + 1]]
              /\ batch' = [batch EXCEPT ![g] = NoValue]
              /\ UNCHANGED hist
    /\ UNCHANGED << args, loader, env_vars, seq_vars, gargs >>

NextGen == \E g \in Generators : GenCall(g) \/ GenNext(g)

SpecGen == InitGen /\ [][NextGen]_vars

(* ------------------ properties of step and the compositor -------------- *)
\* the offset the compositor must use: truncated, then clamped to the canvas
PlacedAt(position) ==
    << Min(Max(AsInt(position[1]), 0), width - mnist_width),
       Min(Max(AsInt(position[2]), 0), height - mnist_height) >>

\* what digit d of a state contributes to pixel (x, y)
Ink(self, state, d, x, y) ==
    LET o == PlacedAt(state.positions[d])
    IN  IF /\ x >= o[1] /\ x < o[1] + mnist_width
           /\ y >= o[2] /\ y < o[2] + mnist_height
        THEN Sprite(self.images[state.indexes[d]])[x - o[1]][y - o[2]]
        ELSE 0

RECURSIVE InkSum(_, _, _, _, _)
InkSum(self, state, n, x, y) ==
    IF n = 0 THEN 0
    ELSE Ink(self, state, n, x, y) + InkSum(self, state, n - 1, x, y)

OutOfBand(p, lim) == p < Px(-2) \/ p > Px(lim + 2)

AxisLim(a) == IF a = 1 THEN width - mnist_width ELSE height - mnist_height

\* C1: step negates an axis's velocity component exactly when the predicted
\* position on that axis is < -2 or > (canvas_dim - sprite_dim) + 2, and
\* leaves it unchanged otherwise; each digit and axis on its own.
C1_Reflection ==
    call.op = "step" =>
        \A d \in DOMAIN held_env_state.state.velocs : \A a \in 1..2 :
            LET p == call.env_state.state.positions[d][a]
                v == call.env_state.state.velocs[d][a]
            IN  held_env_state.state.velocs[d][a] =
                    IF OutOfBand(p + v, AxisLim(a)) THEN -v ELSE v

\* a step in which a digit reflected on x and kept its y velocity, and one
\* whose predicted position was on the bound itself
C1_Witness ==
    /\ call.op = "step"
    /\ \E d \in DOMAIN held_env_state.state.velocs :
         LET p == call.env_state.state.positions[d]
             v == call.env_state.state.velocs[d]
         IN  /\ OutOfBand(p[1] + v[1], AxisLim(1))
             /\ ~OutOfBand(p[2] + v[2], AxisLim(2))
             /\ v[1] # 0 /\ v[2] # 0
             /\ held_env_state.state.velocs[d] = << -v[1], v[2] >>

\* C2: whatever the raw position, every sprite is written at an offset
\* (x, y) with 0 <= x <= width - mnist_width, 0 <= y <= height - mnist_height;
\* the Frame is exactly the canvas and holds every sprite pixel.
C2_Containment ==
    /\ held_env_state # NoValue =>
         \A d \in DOMAIN held_env_state.state.positions :
            LET o == CanvasOffset(loader, held_env_state.state.positions[d])
                fig == _build_canvas(loader, held_env_state.state.indexes[d],
                                     held_env_state.state.positions[d])
            IN  /\ o[1] >= 0 /\ o[1] <= width - mnist_width
                /\ o[2] >= 0 /\ o[2] <= height - mnist_height
                /\ \A i \in 0..(mnist_width - 1), j \in 0..(mnist_height - 1) :
                      fig[o[1] + i][o[2] + j] =
                          Sprite(loader.images[held_env_state.state.indexes[d]])[i][j]
    /\ obsv # NoFrame =>
         /\ DOMAIN obsv = 0..(width - 1)
         /\ \A x \in DOMAIN obsv : DOMAIN obsv[x] = 0..(height - 1)
         /\ \A d \in DOMAIN held_env_state.state.positions :
            \A x \in 0..(width - 1), y \in 0..(height - 1) :
                Ink(loader, held_env_state.state, d, x, y) > 0 => obsv[x][y] > 0

\* a rendered digit whose raw position is outside the canvas on both axes
C2_Witness ==
    /\ obsv # NoFrame
    /\ \E d \in DOMAIN held_env_state.state.positions :
         LET p == held_env_state.state.positions[d]
         IN  /\ p[1] > Px(width - mnist_width)
             /\ p[2] < 0
             /\ obsv[width - 1][0] > 0

\* C3: every pixel of a Frame is min(255, sum of the digits' contributions)
\* in units of 1/255: overlapping sprites add, a sum above 255 renders as
\* 1.0 and never wraps, and every value lies in [0, 1].
C3_Saturation ==
    obsv # NoFrame =>
        \A x \in 0..(width - 1), y \in 0..(height - 1) :
            /\ obsv[x][y] = Min(255, InkSum(loader, held_env_state.state,
                                            Len(held_env_state.state.indexes), x, y))
            /\ obsv[x][y] >= 0 /\ obsv[x][y] <= 255

\* a Frame with a pixel two sprites saturate and a pixel where two add up
\* below saturation
C3_Witness ==
    /\ obsv # NoFrame
    /\ Len(held_env_state.state.indexes) = 2
    /\ \E x \in 0..(width - 1), y \in 0..(height - 1) :
         /\ Ink(loader, held_env_state.state, 1, x, y) > 0
         /\ Ink(loader, held_env_state.state, 2, x, y) > 0
         /\ InkSum(loader, held_env_state.state, 2, x, y) > 255
         /\ obsv[x][y] = 255
    /\ \E x \in 0..(width - 1), y \in 0..(height - 1) :
         /\ Ink(loader, held_env_state.state, 1, x, y) > 0
         /\ Ink(loader, held_env_state.state, 2, x, y) > 0
         /\ obsv[x][y] = Ink(loader, held_env_state.state, 1, x, y)
                           + Ink(loader, held_env_state.state, 2, x, y)
         /\ obsv[x][y] < 255

\* C9: step returns reward 1.0, done False and an empty info, whatever the
\* state and the action, so no run of steps ever signals termination.
C9_NeverDone ==
    /\ call.op = "step" => ret = [reward |-> 1, done |-> FALSE, info |-> << >>]
    /\ ret # NoValue => ret.done = FALSE

\* the caller has taken all the steps it wanted and was never told to stop
C9_Witness ==
    /\ call.op = "step"
    /\ nsteps = MaxSteps
    /\ ret.done = FALSE /\ ret.reward = 1

\* C10: the action does not influence step: the env state and the Frame a
\* step returned are those the null action gives from the same env state.
C10_ActionIgnored ==
    call.op = "step" =>
        LET r == step(loader, call.env_state, NullAction)
        IN  /\ held_env_state = r.env_state
            /\ obsv = r.obsv

\* a step taken with an action that is not the null action
C10_Witness ==
    /\ call.op = "step"
    /\ call.action # NullAction
    /\ held_env_state # call.env_state

(* ------------------------ properties of build_seq ---------------------- *)
RECURSIVE StateAfter(_, _, _)
\* the DigitState n ticks after state
StateAfter(self, state, n) ==
    IF n = 0 THEN state ELSE StateAfter(self, Physics(self, state), n - 1)

\* C4: build_seq(seed) returns exactly seq_len Frames in tick order, the
\* i-th (from 0) being the render of the state i+1 steps after the state
\* reset(seed) makes; the Frame of that initial state is not among them.
C4_SeqOfSteps ==
    built # NoValue =>
        \A s0 \in { _reset(loader, built.key).state } :
            /\ DOMAIN built.ys = 0..(loader.seq_len - 1)
            /\ \A i \in DOMAIN built.ys :
                  built.ys[i] = _get_obsv(loader, StateAfter(loader, s0, i + 1))

\* a built sequence of three Frames, all different from each other and from
\* the Frame reset rendered
C4_Witness ==
    /\ built # NoValue
    /\ DOMAIN built.ys = 0..2
    /\ built.ys[0] # built.ys[1]
    /\ built.ys[1] # built.ys[2]
    /\ built.ys[0] # built.ys[2]
    /\ \A i \in 0..2 : built.ys[i] # reset(loader, built.key).obsv

ParentValues(g) ==
    { random_key(GenSeed) } \cup { hist[g][n].next_key : n \in 1..Len(hist[g]) }

ChildSeeds(g, n) ==
    { hist[g][n].batch_key[b] : b \in DOMAIN hist[g][n].batch_key }

\* C6: the maintained stream is split once per emitted batch and never
\* reset; the child seeds of a batch are pairwise distinct, differ from the
\* child seeds of every other batch and from every value of the parent
\* stream, past or future.
C6_SeedsNeverReused ==
    \A g \in Generators :
        /\ \A n \in 1..Len(hist[g]) :
            /\ hist[g][n].parent =
                  IF n = 1 THEN random_key(GenSeed) ELSE hist[g][n - 1].next_key
            /\ hist[g][n].next_key = Append(hist[g][n].parent, 0)
            /\ Len(hist[g][n].next_key) = 1 + n
            /\ hist[g][n].next_key \notin
                  { random_key(GenSeed) }
                     \cup { hist[g][m].next_key : m \in 1..(n - 1) }
            /\ Cardinality(ChildSeeds(g, n)) = gargs.batch_size
            /\ ChildSeeds(g, n) \cap ParentValues(g) = {}
            /\ \A m \in 1..(n - 1) : ChildSeeds(g, n) \cap ChildSeeds(g, m) = {}
        /\ gen[g].pc = "suspended" =>
            gen[g].locals.next_key = hist[g][Len(hist[g])].next_key

\* a generator that has emitted two batches of two sequences each
C6_Witness ==
    \E g \in Generators :
        /\ Len(hist[g]) >= 2
        /\ gargs.batch_size = 2
        /\ Cardinality(ChildSeeds(g, 1) \cup ChildSeeds(g, 2)) = 4

\* C7: every batch has image of shape (batch_size, seq_len, 64, 64, 1), an
\* all-zero action of shape (batch_size, seq_len, 2), and is_first of shape
\* (batch_size, seq_len), True on row 0 and False on every other row.
C7_BatchShape ==
    \A g \in Generators :
        batch[g] # NoValue =>
            LET rows == 0..(gargs.batch_size - 1)
                ticks == 0..(gargs.seq_len - 1)
            IN  /\ DOMAIN batch[g].image = rows
                /\ \A b \in rows :
                    /\ DOMAIN batch[g].image[b] = ticks
                    /\ \A t \in ticks :
                        /\ DOMAIN batch[g].image[b][t] = 0..(width - 1)
                        /\ \A x \in 0..(width - 1) :
                            /\ DOMAIN batch[g].image[b][t][x] = 0..(height - 1)
                            /\ \A y \in 0..(height - 1) :
                                  DOMAIN batch[g].image[b][t][x][y] = 0..0
                /\ DOMAIN batch[g].action = rows
                /\ DOMAIN batch[g].is_first = rows
                /\ \A b \in rows :
                    /\ DOMAIN batch[g].action[b] = ticks
                    /\ DOMAIN batch[g].is_first[b] = ticks
                    /\ \A t \in ticks :
                        /\ DOMAIN batch[g].action[b][t] = 0..1
                        /\ \A c \in 0..1 : batch[g].action[b][t][c] = 0
                        /\ batch[g].is_first[b][t] = (b = 0)

\* the second batch of a generator, two sequences of two ticks: row 0 is
\* flagged at its later tick too, row 1 not even at its first
C7_Witness ==
    \E g \in Generators :
        /\ Len(hist[g]) = 2
        /\ batch[g] # NoValue
        /\ gargs.batch_size = 2 /\ gargs.seq_len = 2
        /\ batch[g].is_first[0][1] = TRUE
        /\ batch[g].is_first[1][0] = FALSE
        /\ \E x \in 0..(width - 1), y \in 0..(height - 1) :
              batch[g].image[1][1][x][y][0] > 0

(* --------------------- properties of construction ---------------------- *)
\* C8: a loader with a non-positive seq_len, no images or fewer than one
\* digit per sequence is refused at construction, so no such loader exists.
C8_InvalidConfigRefused ==
    loader # NoLoader =>
        /\ loader.seq_len > 0
        /\ loader.num_images > 0
        /\ loader.nums_per_image >= 1

(* ------------------- properties of an episode: reset, steps ------------ *)
\* C11: step hands on the sprite indexes and the key of the env state as it
\* got them: after reset and any number of steps they are those reset
\* returned; only positions and velocities differ.
C11_StepKeepsIndexesAndKey ==
    /\ call.op = "reset" =>
          /\ held_env_state = _reset(loader, call.key)
          /\ initial_env_state = held_env_state
    /\ call.op = "step" =>
          /\ held_env_state.key = call.env_state.key
          /\ held_env_state.state.indexes = call.env_state.state.indexes
    /\ held_env_state # NoValue =>
          /\ held_env_state.key = initial_env_state.key
          /\ held_env_state.state.indexes = initial_env_state.state.indexes
          /\ DOMAIN held_env_state = { "state", "key" }
          /\ DOMAIN held_env_state.state = { "indexes", "positions", "velocs" }

\* two digits of different sprites, MaxSteps steps after reset: every digit
\* has moved
C11_Witness ==
    /\ call.op = "step"
    /\ nsteps = MaxSteps
    /\ Len(held_env_state.state.indexes) = 2
    /\ held_env_state.state.indexes[1] # held_env_state.state.indexes[2]
    /\ \A d \in 1..2 :
          held_env_state.state.positions[d] # initial_env_state.state.positions[d]

\* C12: every sprite index of a DigitState that reset made, then and after
\* any number of steps, lies in [0, num_images), and no sprite lookup of the
\* compositor is out of range.
C12_IndexInRange ==
    /\ held_env_state # NoValue =>
          \A d \in DOMAIN held_env_state.state.indexes :
              held_env_state.state.indexes[d] \in DOMAIN loader.images
    /\ call.op = "reset_raised" =>
          \A d \in DOMAIN call.drawn.indexes :
              call.drawn.indexes[d] \in DOMAIN loader.images

\* C13: a generator never ends on its own: it is never exhausted, and every
\* pull, however many went before, returned exactly one Batch and left the
\* generator suspended at its yield.
C13_NeverExhausted ==
    \A g \in Generators :
        /\ gen[g].pc \in { "absent", "created", "suspended" }
        /\ Len(hist[g]) = Pulls(g)
        /\ Pulls(g) > 0 =>
              /\ gen[g].pc = "suspended"
              /\ batch[g] # NoValue
              /\ LoopCond(gen[g].locals)

\* a generator after MaxPulls pulls, still suspended, one Batch per pull
C13_Witness ==
    \E g \in Generators :
        /\ Pulls(g) = MaxPulls
        /\ Pulls(g) >= 2
        /\ gen[g].pc = "suspended"
        /\ Len(hist[g]) = MaxPulls
        /\ batch[g] # NoValue

\* C14: a reflection acts on the tick that detects it: the position step
\* returns is the old position plus the velocity step returns, that is
\* old position - old velocity on an axis that reflected and old position +
\* old velocity on one that did not.
C14_ReflectsSameTick ==
    call.op = "step" =>
        \A d \in DOMAIN held_env_state.state.positions : \A a \in 1..2 :
            LET p == call.env_state.state.positions[d][a]
                v == call.env_state.state.velocs[d][a]
                reflected == OutOfBand(p + v, AxisLim(a))
            IN  /\ held_env_state.state.positions[d][a] =
                       p + held_env_state.state.velocs[d][a]
                /\ reflected => held_env_state.state.positions[d][a] = p - v
                /\ ~reflected => held_env_state.state.positions[d][a] = p + v

\* a step in which a moving digit reflected on one axis and not on the other
C14_Witness ==
    /\ call.op = "step"
    /\ \E d \in DOMAIN held_env_state.state.positions : \E a, b \in 1..2 :
         LET p == call.env_state.state.positions[d]
             v == call.env_state.state.velocs[d]
         IN  /\ v[a] # 0 /\ v[b] # 0
             /\ OutOfBand(p[a] + v[a], AxisLim(a))
             /\ ~OutOfBand(p[b] + v[b], AxisLim(b))
             /\ held_env_state.state.positions[d][a] = p[a] - v[a]
             /\ held_env_state.state.positions[d][a] # p[a] + v[a]
             /\ held_env_state.state.positions[d][b] = p[b] + v[b]

(* --------------------- properties of the sprite offset ----------------- *)
\* the integer next to p on the side of zero: p with its fraction dropped
TowardZero(p) ==
    CHOOSE n \in (-2 * width)..(2 * width) :
        IF p >= 0 THEN Px(n) <= p /\ p < Px(n + 1)
        ELSE Px(n) >= p /\ p > Px(n - 1)

\* a canvas that is zero but for sprite id written at offset o
SpriteAlone(id, o) ==
    [x \in 0..(width - 1) |-> [y \in 0..(height - 1) |->
        IF /\ x >= o[1] /\ x < o[1] + mnist_width
           /\ y >= o[2] /\ y < o[2] + mnist_height
        THEN Sprite(id)[x - o[1]][y - o[2]]
        ELSE 0]]

\* C15: each sprite is drawn at the offset got by dropping the fraction of
\* each position component (toward zero, no rounding) and then clamping x
\* to [0, width - mnist_width] and y to [0, height - mnist_height], each on
\* its own; the position kept in the state is the unclamped one.
C15_TruncateThenClamp ==
    obsv # NoFrame =>
        \A d \in DOMAIN held_env_state.state.positions :
            LET pos == held_env_state.state.positions[d]
                id == loader.images[held_env_state.state.indexes[d]]
                o == << Min(Max(TowardZero(pos[1]), 0), width - mnist_width),
                        Min(Max(TowardZero(pos[2]), 0), height - mnist_height) >>
            IN  /\ CanvasOffset(loader, pos) = o
                /\ _build_canvas(loader, held_env_state.state.indexes[d], pos)
                      = SpriteAlone(id, o)
                /\ Len(held_env_state.state.indexes) = 1 =>
                      obsv = SpriteAlone(id, o)
                /\ call.op = "step" =>
                      \A a \in 1..2 :
                          pos[a] = call.env_state.state.positions[d][a]
                                     + held_env_state.state.velocs[d][a]

\* a rendered digit whose x is beyond the canvas, so clamped for the Frame
\* and kept as it is in the state, and whose y has a fraction of a half or
\* more, which is dropped
C15_Witness ==
    /\ obsv # NoFrame
    /\ \E d \in DOMAIN held_env_state.state.positions :
         LET pos == held_env_state.state.positions[d]
             o == CanvasOffset(loader, pos)
         IN  /\ pos[1] > Px(width - mnist_width)
             /\ o[1] = width - mnist_width
             /\ pos[2] > 0 /\ pos[2] < Px(height - mnist_height)
             /\ 2 * (pos[2] % Scale) >= Scale
             /\ Px(o[2]) < pos[2] /\ pos[2] < Px(o[2] + 1)

(* ----------------------- properties of reset's draws ------------------- *)
\* the subkeys reset drew from, in the order of the draws
SubKeys(keys) == << keys.direcs, keys.indexes, keys.speeds, keys.positions >>

\* C16: reset uses no key twice: the incoming key and the three parents
\* after it are four different keys, each split once; the second key of
\* each split feeds one draw, headings, indexes, speeds and positions in
\* that order; the four subkeys differ from each other and from every
\* parent; the key returned is the first key of the last split, which is
\* none of the keys reset split or drew from.
C16_NoKeyUsedTwice ==
    call.op = "reset" =>
        LET keys == call.keys
            sub == SubKeys(keys)
            parents == { keys.split[i] : i \in 1..4 }
            subkeys == { sub[i] : i \in 1..4 }
            k == loader.nums_per_image
        IN  /\ keys.split[1] = call.key
            /\ Cardinality(parents) = 4
            /\ Cardinality(subkeys) = 4
            /\ parents \cap subkeys = {}
            /\ \A i \in 1..4 : sub[i] = random_split(keys.split[i], 2)[1]
            /\ \A i \in 1..3 :
                  keys.split[i + 1] = random_split(keys.split[i], 2)[0]
            /\ keys.new_key = random_split(keys.split[4], 2)[0]
            /\ keys.new_key \notin parents \cup subkeys
            /\ held_env_state.key = keys.new_key
            /\ \A d \in 1..k :
                  /\ call.drawn.direcs[d] =
                        random_uniform(sub[1], d - 1, Len(HeadingTable)) + 1
                  /\ held_env_state.state.indexes[d] =
                        random_randint(sub[2], d - 1, 0, loader.num_images)
                  /\ call.drawn.speeds[d] =
                        random_randint(sub[3], d - 1, 0, 5) + 2
                  /\ \A a \in 1..2 :
                        held_env_state.state.positions[d][a] =
                            random_uniform(sub[4], 2 * (d - 1) + (a - 1),
                                           Px(loader.lims[a]))

\* a reset that drew two digits: eight keys handled and a ninth returned
C16_Witness ==
    /\ call.op = "reset"
    /\ loader.nums_per_image = 2
    /\ Cardinality({ call.keys.split[i] : i \in 1..4 }
                      \cup { SubKeys(call.keys)[i] : i \in 1..4 }
                      \cup { held_env_state.key }) = 9
    /\ held_env_state.state.positions[1] # held_env_state.state.positions[2]

Abs(n) == IF n < 0 THEN -n ELSE n

\* C17: every DigitState reset returns has, for each digit, a speed drawn
\* from {2, 3, 4, 5, 6}, a velocity of that length, so that no component
\* exceeds 6 in absolute value, and a position with x in
\* [0, width - mnist_width] and y in [0, height - mnist_height].
C17_ResetRanges ==
    call.op = "reset" =>
        \A d \in 1..loader.nums_per_image :
            LET speed == call.drawn.speeds[d]
                v == held_env_state.state.velocs[d]
                pos == held_env_state.state.positions[d]
            IN  /\ speed \in 2..6
                /\ \A a \in 1..2 : Abs(v[a]) <= Px(speed) /\ Abs(v[a]) <= Px(6)
                /\ Abs(v[1] * v[1] + v[2] * v[2] - Px(speed) * Px(speed))
                      <= 2 * Px(speed) + 1
                /\ pos[1] >= 0 /\ pos[1] <= Px(width - mnist_width)
                /\ pos[2] >= 0 /\ pos[2] <= Px(height - mnist_height)

\* a reset that drew the slowest and the fastest speed, the fastest digit
\* moving along one axis at 6 pixels a tick
C17_Witness ==
    /\ call.op = "reset"
    /\ loader.nums_per_image = 2
    /\ { call.drawn.speeds[d] : d \in 1..2 } = { 2, 6 }
    /\ \E d \in 1..2 : \E a \in 1..2 :
          Abs(held_env_state.state.velocs[d][a]) = Px(6)

\* C18: from a reset state no digit drifts away: after any number of steps
\* every position component lies in [-2, (canvas_dim - sprite_dim) + 2],
\* which is [-2, 38], no velocity component exceeds 6 in absolute value,
\* and the clamp of the compositor moves the sprite by 2 pixels at most.
C18_StaysInBand ==
    held_env_state # NoValue =>
        \A d \in DOMAIN held_env_state.state.positions : \A a \in 1..2 :
            LET p == held_env_state.state.positions[d][a]
                v == held_env_state.state.velocs[d][a]
            IN  /\ p >= Px(-2) /\ p <= Px(AxisLim(a) + 2)
                /\ p >= Px(-2) /\ p <= Px(38)
                /\ Abs(v) <= Px(6)
                /\ Abs(CanvasOffset(loader, held_env_state.state.positions[d])[a]
                         - AsInt(p)) <= 2

\* some steps after reset, a digit that has turned round at the upper bound
C18_Witness ==
    /\ call.op = "step"
    /\ nsteps >= 2
    /\ \E d \in DOMAIN held_env_state.state.positions : \E a \in 1..2 :
          /\ initial_env_state.state.velocs[d][a] # 0
          /\ held_env_state.state.velocs[d][a] =
                -initial_env_state.state.velocs[d][a]
          /\ held_env_state.state.positions[d][a] >
                Px(AxisLim(a) - 6)

\* C19: step changes a velocity component by negating it or not at all: the
\* absolute value of every component, after any number of steps from any
\* state, is the one it had in the state the steps began from.
C19_SpeedConserved ==
    /\ held_env_state # NoValue =>
          \A d \in DOMAIN held_env_state.state.velocs : \A a \in 1..2 :
              Abs(held_env_state.state.velocs[d][a]) =
                  Abs(initial_env_state.state.velocs[d][a])
    /\ call.op = "step" =>
          \A d \in DOMAIN held_env_state.state.velocs : \A a \in 1..2 :
              held_env_state.state.velocs[d][a] \in
                  { call.env_state.state.velocs[d][a],
                    -call.env_state.state.velocs[d][a] }

\* several steps from a state, a digit that goes the other way on one axis
\* and the same way on the other, at different speeds on the two axes
C19_Witness ==
    /\ call.op = "step"
    /\ nsteps >= 2
    /\ \E d \in DOMAIN held_env_state.state.velocs : \E a, b \in 1..2 :
          LET v0 == initial_env_state.state.velocs[d]
              v == held_env_state.state.velocs[d]
          IN  /\ v0[a] # 0 /\ v0[b] # 0
              /\ Abs(v0[a]) # Abs(v0[b])
              /\ v[a] = -v0[a]
              /\ v[b] = v0[b]

====
